---- MODULE Spec2Model ----
(***************************************************************************)
(* Model of xdf4mne.read_raw_xdf (src/src/xdf4mne/xdf.py).                 *)
(*                                                                         *)
(* The function is modelled as a sequential state machine: one action per  *)
(* block of the function body, in program order.  The stream list returned *)
(* by the loader and the four string arguments are the inputs; they are    *)
(* chosen in Init from bounded sets.                                       *)
(*                                                                         *)
(* The recording container (RawArray / Annotations) is an external library;*)
(* it is modelled as a plain record whose annotation collection is an      *)
(* ordered sequence and whose "+" is concatenation.                        *)
(***************************************************************************)
EXTENDS Integers, Sequences, FiniteSets, TLC

VARIABLES streams, name_stream_eeg, name_stream_markers, data_type,
          data_type_markers, pc, eeg_stream, n_chans, labels, raw,
          first_samp, markers_streams, done_markers, err, returned

vars == <<streams, name_stream_eeg, name_stream_markers, data_type,
          data_type_markers, pc, eeg_stream, n_chans, labels, raw,
          first_samp, markers_streams, done_markers, err, returned>>

---------------------------------------------------------------------------
(* Bounds of the explored input space *)

MaxStreams == 3
MaxChans == 2
MaxSamples == 2
MaxEvents == 3
MaxMarkerStreams == 2

---------------------------------------------------------------------------
(* Python values *)

\* An optional string argument: <<>> is None, <<s>> is the string s.
None == <<>>
Some(s) == <<s>>

\* Variant: "is not None" in place of truthiness.
Truthy_NotNone(x) == x # None

\* Python truthiness of an optional string: None and "" are falsy.
Truthy(x) == x # None /\ x[1] # ""

\* Decimal digits, used by int() and by the f-string below.
Digits == <<"0", "1", "2", "3", "4", "5", "6", "7", "8", "9">>

\* int(s) for a one-digit decimal string.
IntOf(s) == CHOOSE n \in 0..9 : Digits[n + 1] = s

\* str(n) for 0 <= n <= 9.
StrOf(n) == Digits[n + 1]

\* A Python value nested at most one level deep, encoded as a tagged tuple
\* of strings: <<"str", s>> is the string s, <<"list", e1, ..>> a list,
\* <<"array", e1, ..>> a non-list sequence (tuple / ndarray row).
PyStr(s) == <<"str", s>>
Kind(v) == v[1]
Elems(v) == Tail(v)

\* isinstance(item, list)
IsList(v) == Kind(v) = "list"

---------------------------------------------------------------------------
(* Stream records as returned by the loader *)

\* The descriptor info["desc"].  shape tells how far the path
\* desc -> [0] -> channels -> [0] -> channel can be walked:
\*   "missing"     info has no "desc" key                    (KeyError)
\*   "none"        desc[0] is None                           (TypeError)
\*   "nochannels"  desc[0] has no "channels" key             (KeyError)
\*   "dict"        channel is one dict, not a list of dicts  (TypeError)
\*   "list"        channel is a list of channel entries
\* A channel entry is <<"nokey">> (no "label" key), <<"label">> (label is
\* an empty list) or <<"label", s>> (label is [s]).
Desc(shape, channel) == [shape |-> shape, channel |-> channel]

Stream(name, type, cc, desc, series, stamps) ==
    [name |-> name, type |-> type, channel_count |-> cc, desc |-> desc,
     time_series |-> series, time_stamps |-> stamps]

Names == {"", "a", "b"}
Types == {"EEG", "Markers"}
NameArgs == {None, Some(""), Some("a")}

\* A numeric stream: k samples of n channels, first timestamp t0.
DataSeries(n, k) ==
    [r \in 1..k |-> <<"array">> \o [c \in 1..n |-> StrOf(r) \o StrOf(c)]]
DataStamps(k, t0) == [r \in 1..k |-> t0 + r - 1]

\* A marker stream: k events every 5 time units from t0, each event value of
\* the given kind ("str", "list0", "list1", "list2", "array1").
MarkerKinds == {"str", "list0", "list1", "list2", "array1"}
MarkerItem(kind, tag, e) ==
    LET s == tag \o StrOf(e) IN
    CASE kind = "str"    -> PyStr(s)
      [] kind = "list0"  -> <<"list">>
      [] kind = "list1"  -> <<"list", s>>
      [] kind = "list2"  -> <<"list", s, s \o "x">>
      [] kind = "array1" -> <<"array", s>>
MarkerSeries(kind, tag, k) == [e \in 1..k |-> MarkerItem(kind, tag, e)]
MarkerStamps(k, t0) == [e \in 1..k |-> t0 + 5 * (e - 1)]

\* Streams for the selection cases: name and type vary freely, the payload
\* follows the type and the position i in the file.
SelStream(name, type, i) ==
    IF type = "EEG"
    THEN Stream(name, type, "1", Desc("none", <<>>),
                DataSeries(1, 1), DataStamps(1, 10 * i))
    ELSE Stream(name, type, "1", Desc("none", <<>>),
                MarkerSeries("list1", StrOf(i), 1), MarkerStamps(1, 10 * i + 2))

InitSelection ==
    \E n \in 0..MaxStreams : \E f \in [1..n -> Names \X Types] :
        streams = [i \in 1..n |-> SelStream(f[i][1], f[i][2], i)]

\* Streams for the channel-metadata cases: one numeric stream whose declared
\* channel count, descriptor and length vary.
ChannelEntries == {<<"nokey">>, <<"label">>, <<"label", "Fz">>, <<"label", "Cz">>}
SeqsUpTo(S, n) == UNION {[1..k -> S] : k \in 0..n}
Descs ==
    {Desc(sh, <<>>) : sh \in {"missing", "none", "nochannels", "dict"}}
    \cup {Desc("list", ch) : ch \in SeqsUpTo(ChannelEntries, MaxChans)}

InitChannels ==
    \E cc \in 1..MaxChans, d \in Descs, k \in 0..MaxSamples :
        streams = <<Stream("a", "EEG", StrOf(cc), d,
                           DataSeries(cc, k), DataStamps(k, 10))>>

\* Streams for the marker cases: one numeric stream named "a" placed
\* anywhere among up to MaxMarkerStreams marker streams named "b"; the i-th
\* marker stream starts at time 6 + 2i, the numeric stream at time 10.
MarkerStream(kind, k, i) ==
    Stream("b", "Markers", "1", Desc("none", <<>>),
           MarkerSeries(kind, StrOf(i), k), MarkerStamps(k, 6 + 2 * i))
InsertAt(s, p, x) == SubSeq(s, 1, p) \o <<x>> \o SubSeq(s, p + 1, Len(s))

InitMarkers ==
    \E n \in 1..MaxMarkerStreams :
    \E f \in [1..n -> MarkerKinds \X (0..MaxEvents)] :
    \E p \in 0..n :
        streams = InsertAt(
            [i \in 1..n |-> MarkerStream(f[i][1], f[i][2], i)],
            p,
            Stream("a", "EEG", "1", Desc("none", <<>>),
                   DataSeries(1, 2), DataStamps(2, 10)))

\* State on entry to the function body, right after load_xdf returned.
Init ==
    /\ \/ /\ InitSelection
          /\ name_stream_eeg \in NameArgs
          /\ name_stream_markers \in NameArgs
          /\ data_type \in Types
          /\ data_type_markers \in Types
       \/ /\ InitChannels
          /\ name_stream_eeg \in NameArgs
          /\ name_stream_markers = None
          /\ data_type = "EEG"
          /\ data_type_markers = "Markers"
       \/ /\ InitMarkers
          /\ name_stream_eeg = None
          /\ name_stream_markers \in {None, Some("b")}
          /\ data_type = "EEG"
          /\ data_type_markers = "Markers"
    /\ pc = "find_eeg"
    /\ eeg_stream = 0
    /\ n_chans = 0
    /\ labels = <<>>
    /\ raw = <<>>
    /\ first_samp = 0
    /\ markers_streams = <<>>
    /\ done_markers = 0
    /\ err = ""
    /\ returned = <<>>

---------------------------------------------------------------------------
(* The function body *)

\* Variant: the search loop without its break statements (last match wins).
RECURSIVE ScanEEG_NoBreak(_, _, _, _)
ScanEEG_NoBreak(strs, name, dtype, i) ==
    IF i > Len(strs) THEN 0
    ELSE LET rest == ScanEEG_NoBreak(strs, name, dtype, i + 1)
             hit == IF Truthy(name) THEN strs[i].name = name[1]
                    ELSE strs[i].type = dtype
         IN IF rest # 0 THEN rest ELSE IF hit THEN i ELSE 0

\* Variant: a stream is accepted when its name or its type matches.
RECURSIVE ScanEEG_NameOrType(_, _, _, _)
ScanEEG_NameOrType(strs, name, dtype, i) ==
    IF i > Len(strs) THEN 0
    ELSE IF (Truthy(name) /\ strs[i].name = name[1]) \/ strs[i].type = dtype
         THEN i
         ELSE ScanEEG_NameOrType(strs, name, dtype, i + 1)

\* Lines 41-51: index of the stream bound to eeg_stream by the search loop
\* started at position i, 0 for None.
RECURSIVE ScanEEG(_, _, _, _)
ScanEEG(strs, name, dtype, i) ==
    IF i > Len(strs) THEN 0
    ELSE IF Truthy(name)
         THEN IF strs[i].name = name[1] THEN i
              ELSE ScanEEG(strs, name, dtype, i + 1)
         ELSE IF strs[i].type = dtype THEN i
              ELSE ScanEEG(strs, name, dtype, i + 1)

\* Lines 40-54: search for the EEG stream, raise if there is none.
FindEEG ==
    /\ pc = "find_eeg"
    /\ eeg_stream' = ScanEEG(streams, name_stream_eeg, data_type, 1)
    /\ IF eeg_stream' = 0
       THEN pc' = "raised" /\ err' = "ValueError"
       ELSE pc' = "load_info" /\ err' = err
    /\ UNCHANGED <<streams, name_stream_eeg, name_stream_markers, data_type,
                   data_type_markers, n_chans, labels, raw, first_samp,
                   markers_streams, done_markers, returned>>

\* Lines 60-64: the labels appended before the loop ends or an exception
\* leaves it.
RECURSIVE ReadLabels(_)
ReadLabels(channel) ==
    IF channel = <<>> THEN <<>>
    ELSE IF Head(channel)[1] = "label" /\ Len(Head(channel)) > 1
         THEN <<Head(channel)[2]>> \o ReadLabels(Tail(channel))
         ELSE <<>>

\* Variant: placeholder names numbered from 1.
DefaultLabels_OneBased(n) == [c \in 1..n |-> "EEG " \o StrOf(c)]

\* Line 66: [f'EEG {n}' for n in range(n_chans)]
DefaultLabels(n) == [c \in 1..n |-> "EEG " \o StrOf(c - 1)]

\* Lines 59-66: the channel label list.
ChannelLabels(desc, n) ==
    LET read == IF desc.shape = "list" THEN ReadLabels(desc.channel) ELSE <<>>
    IN IF read = <<>> THEN DefaultLabels(n) ELSE read

\* Lines 56-66: channel count and labels of the selected stream.
LoadInfo ==
    /\ pc = "load_info"
    /\ n_chans' = IntOf(streams[eeg_stream].channel_count)
    /\ labels' = ChannelLabels(streams[eeg_stream].desc, n_chans')
    /\ pc' = "create_raw"
    /\ UNCHANGED <<streams, name_stream_eeg, name_stream_markers, data_type,
                   data_type_markers, eeg_stream, raw, first_samp,
                   markers_streams, done_markers, err, returned>>

\* Line 69: np.array(time_series).T ; a one-dimensional array is its own
\* transpose.
Transpose(m) ==
    IF m = <<>> THEN <<>>
    ELSE IF Kind(m[1]) = "str" THEN m
    ELSE [c \in 1..Len(Elems(m[1])) |-> [r \in 1..Len(m) |-> Elems(m[r])[c]]]

\* Lines 68-71: the recording object, with an empty annotation collection.
RawArray(names, n, series) ==
    [ch_names |-> names, ch_types |-> [c \in 1..n |-> "eeg"],
     data |-> Transpose(series), annotations |-> <<>>]

\* Lines 68-76: build the recording, keep the first timestamp; indexing an
\* empty timestamp array raises.
CreateRaw ==
    /\ pc = "create_raw"
    /\ raw' = <<RawArray(labels, n_chans, streams[eeg_stream].time_series)>>
    /\ IF streams[eeg_stream].time_stamps = <<>>
       THEN pc' = "raised" /\ err' = "IndexError" /\ first_samp' = first_samp
       ELSE /\ first_samp' = streams[eeg_stream].time_stamps[1]
            /\ pc' = "find_markers" /\ err' = err
    /\ UNCHANGED <<streams, name_stream_eeg, name_stream_markers, data_type,
                   data_type_markers, eeg_stream, n_chans, labels,
                   markers_streams, done_markers, returned>>

\* Variant: the name branch without its break statement.
RECURSIVE ScanMarkers_NoBreak(_, _, _, _)
ScanMarkers_NoBreak(strs, name, mtype, i) ==
    IF i > Len(strs) THEN <<>>
    ELSE IF (IF Truthy(name) THEN strs[i].name = name[1]
             ELSE strs[i].type = mtype)
         THEN <<i>> \o ScanMarkers_NoBreak(strs, name, mtype, i + 1)
         ELSE ScanMarkers_NoBreak(strs, name, mtype, i + 1)

\* Lines 79-88: indices of the streams appended to markers_streams by the
\* loop started at position i.
RECURSIVE ScanMarkers(_, _, _, _)
ScanMarkers(strs, name, mtype, i) ==
    IF i > Len(strs) THEN <<>>
    ELSE IF Truthy(name)
         THEN IF strs[i].name = name[1] THEN <<i>>
              ELSE ScanMarkers(strs, name, mtype, i + 1)
         ELSE IF strs[i].type = mtype
              THEN <<i>> \o ScanMarkers(strs, name, mtype, i + 1)
              ELSE ScanMarkers(strs, name, mtype, i + 1)

\* Lines 78-88: find the marker streams.
FindMarkers ==
    /\ pc = "find_markers"
    /\ markers_streams' =
           ScanMarkers(streams, name_stream_markers, data_type_markers, 1)
    /\ pc' = "annotate"
    /\ UNCHANGED <<streams, name_stream_eeg, name_stream_markers, data_type,
                   data_type_markers, eeg_stream, n_chans, labels, raw,
                   first_samp, done_markers, err, returned>>

\* Variant: onsets clamped at the start of the data.
Onsets_Clamped(stamps, t0) ==
    [e \in 1..Len(stamps) |-> IF stamps[e] < t0 THEN 0 ELSE stamps[e] - t0]

\* Line 93: time_stamps - first_samp
Onsets(stamps, t0) == [e \in 1..Len(stamps) |-> stamps[e] - t0]

\* Variant: only a one-element list is unwrapped.
Description_SingletonOnly(item) ==
    IF IsList(item) /\ Len(Elems(item)) = 1 THEN PyStr(item[2]) ELSE item

\* Line 95: item[0] if isinstance(item, list) else item
Description(item) == IF IsList(item) THEN PyStr(item[2]) ELSE item

\* Line 95: item[0] raises IndexError on an empty list.
DescriptionRaises(item) == IsList(item) /\ Elems(item) = <<>>

\* Lines 93-98: the annotations made from one marker stream.
Annotations(stream, t0) ==
    LET onsets == Onsets(stream.time_stamps, t0)
    IN [e \in 1..Len(onsets) |->
           [onset |-> onsets[e], duration |-> 0,
            description |-> Description(stream.time_series[e])]]

\* Variant: raw.set_annotations(annotations)
SetAnnotations_Replace(r, annotations) ==
    [r EXCEPT !.annotations = annotations]

\* Line 99: raw.set_annotations(raw.annotations + annotations)
SetAnnotations(r, annotations) ==
    [r EXCEPT !.annotations = r.annotations \o annotations]

\* Lines 91-99: one iteration of the loop over the marker streams.
Annotate ==
    /\ pc = "annotate"
    /\ done_markers < Len(markers_streams)
    /\ LET marker_stream == streams[markers_streams[done_markers + 1]]
       IN IF \E e \in 1..Len(marker_stream.time_series) :
                 DescriptionRaises(marker_stream.time_series[e])
          THEN /\ pc' = "raised" /\ err' = "IndexError"
               /\ UNCHANGED <<raw, done_markers>>
          ELSE /\ raw' = <<SetAnnotations(raw[1],
                              Annotations(marker_stream, first_samp))>>
               /\ done_markers' = done_markers + 1
               /\ UNCHANGED <<pc, err>>
    /\ UNCHANGED <<streams, name_stream_eeg, name_stream_markers, data_type,
                   data_type_markers, eeg_stream, n_chans, labels,
                   first_samp, markers_streams, returned>>

\* Line 101: return raw
Return ==
    /\ pc = "annotate"
    /\ done_markers = Len(markers_streams)
    /\ returned' = raw
    /\ pc' = "done"
    /\ UNCHANGED <<streams, name_stream_eeg, name_stream_markers, data_type,
                   data_type_markers, eeg_stream, n_chans, labels, raw,
                   first_samp, markers_streams, done_markers, err>>

Next == FindEEG \/ LoadInfo \/ CreateRaw \/ FindMarkers \/ Annotate \/ Return

Spec == Init /\ [][Next]_vars
---------------------------------------------------------------------------
(* Vocabulary of the properties *)

\* A name argument counts as given when it is a non-empty string.
Given(x) == x # None /\ x # Some("")

Least(S) == CHOOSE i \in S : \A j \in S : i <= j

\* Indices of the streams with the given name / of the given type.
Named(x) == {i \in 1..Len(streams) : streams[i].name = x}
Typed(t) == {i \in 1..Len(streams) : streams[i].type = t}

\* The streams the data-stream criterion accepts.
DataCandidates ==
    IF Given(name_stream_eeg) THEN Named(name_stream_eeg[1])
    ELSE Typed(data_type)

\* The search for the data stream / the marker streams has run.
EEGSearched == pc # "find_eeg"
MarkersSearched == pc \in {"annotate", "done"}

\* C1: the selected data stream is the lowest-index stream with the given
\* name if a name is given, else the lowest-index stream of the requested
\* type; a stream is selected whenever one qualifies, and none after it.
C1_DataStreamSelection ==
    EEGSearched =>
        IF DataCandidates = {} THEN eeg_stream = 0
        ELSE eeg_stream = Least(DataCandidates)

C1_Witness ==
    /\ pc = "load_info"
    /\ Given(name_stream_eeg)
    /\ \E j \in Named(name_stream_eeg[1]) : j > eeg_stream
    /\ \E j \in Typed(data_type) : j < eeg_stream

\* C2: when no stream satisfies the data-stream criterion (an unmatched name
\* even if a stream of the requested type exists, or no name and no stream
\* of the requested type) the call raises, nothing is returned and no
\* recording object or annotation has been built.
C2_NoStreamFound ==
    (EEGSearched /\ DataCandidates = {}) =>
        /\ pc = "raised" /\ err = "ValueError"
        /\ raw = <<>> /\ returned = <<>>
        /\ markers_streams = <<>> /\ done_markers = 0

C2_Witness ==
    /\ pc = "raised" /\ err = "ValueError"
    /\ Given(name_stream_eeg)
    /\ Named(name_stream_eeg[1]) = {}
    /\ Typed(data_type) # {}

\* C3: with a marker-stream name given the selected marker streams are at
\* most one, the lowest-index stream so named; with none given they are all
\* the streams of the requested marker type, in file order.
C3_MarkerStreamSelection ==
    MarkersSearched =>
        IF Given(name_stream_markers)
        THEN IF Named(name_stream_markers[1]) = {}
             THEN markers_streams = <<>>
             ELSE markers_streams = <<Least(Named(name_stream_markers[1]))>>
        ELSE /\ {markers_streams[k] : k \in 1..Len(markers_streams)}
                    = Typed(data_type_markers)
             /\ \A k \in 1..(Len(markers_streams) - 1) :
                    markers_streams[k] < markers_streams[k + 1]

C3_Witness ==
    /\ pc = "done"
    /\ Given(name_stream_markers)
    /\ Cardinality(Named(name_stream_markers[1])
                   \cap Typed(data_type_markers)) >= 2
    /\ Len(markers_streams) = 1

\* Number of events of the marker streams processed before the k-th one.
RECURSIVE EventsBefore(_)
EventsBefore(k) ==
    IF k <= 1 THEN 0
    ELSE EventsBefore(k - 1)
         + Len(streams[markers_streams[k - 1]].time_stamps)

\* The marker loop is running or has finished.
Annotating == pc \in {"annotate", "done"}

\* C4: the annotation of every event of every processed marker stream has
\* onset equal to the event timestamp minus the first timestamp of the
\* selected data stream, unclamped, and duration 0.
C4_MarkerAlignment ==
    Annotating =>
        \A k \in 1..done_markers :
            LET m == streams[markers_streams[k]] IN
            \A e \in 1..Len(m.time_stamps) :
                LET a == raw[1].annotations[EventsBefore(k) + e] IN
                /\ a.onset = m.time_stamps[e]
                             - streams[eeg_stream].time_stamps[1]
                /\ a.duration = 0

C4_Witness ==
    /\ pc = "done"
    /\ eeg_stream > 1
    /\ \E i \in 1..Len(returned[1].annotations) :
           returned[1].annotations[i].onset < 0
    /\ \E i \in 1..(Len(returned[1].annotations) - 2) :
           /\ returned[1].annotations[i].onset = 0
           /\ returned[1].annotations[i + 1].onset = 5
           /\ returned[1].annotations[i + 2].onset = 10

\* C5: after k marker streams have been processed the annotation collection
\* holds exactly the events of those k streams, stream after stream in file
\* order and each stream's events in their own order; nothing already
\* present is replaced or dropped.
C5_MarkerMerge ==
    Annotating =>
        /\ Len(raw[1].annotations) = EventsBefore(done_markers + 1)
        /\ \A k \in 1..done_markers :
               LET m == streams[markers_streams[k]] IN
               \A e \in 1..Len(m.time_stamps) :
                   raw[1].annotations[EventsBefore(k) + e]
                       = Annotations(m, first_samp)[e]

C5_Witness ==
    /\ pc = "done"
    /\ Len(markers_streams) = 2
    /\ Len(streams[markers_streams[1]].time_stamps) = 2
    /\ Len(streams[markers_streams[2]].time_stamps) = 3
    /\ Len(returned[1].annotations) = 5

\* The descriptor and declared channel count of the selected data stream.
SelectedDesc == streams[eeg_stream].desc
DeclaredCount ==
    CHOOSE n \in 0..9 : Digits[n + 1] = streams[eeg_stream].channel_count

\* A channel entry carries a readable label.
HasLabel(ch) == ch[1] = "label" /\ Len(ch) = 2

\* The descriptor omits channel labels: the path to the channel list is
\* broken, or no entry of the channel list carries a label.
OmitsLabels(d) ==
    \/ d.shape # "list"
    \/ \A c \in 1..Len(d.channel) : ~HasLabel(d.channel[c])

\* "EEG 0", "EEG 1", ..., "EEG {n-1}"
PlaceholderNames(n) == [c \in 1..n |-> "EEG " \o Digits[c]]

\* The channel metadata of the selected stream has been derived.
InfoLoaded == eeg_stream # 0 /\ pc \notin {"find_eeg", "load_info"}

\* C6: for a selected data stream whose descriptor omits channel labels the
\* channel names are the placeholders "EEG 0" .. "EEG {n-1}", of the recording
\* too once it is built, and deriving them raises no error.
C6_LabelFallback ==
    (InfoLoaded /\ OmitsLabels(SelectedDesc)) =>
        /\ labels = PlaceholderNames(DeclaredCount)
        /\ pc = "create_raw" => err = ""
        /\ raw # <<>> => raw[1].ch_names = PlaceholderNames(DeclaredCount)

C6_Witness ==
    /\ pc = "done"
    /\ SelectedDesc.shape = "list"
    /\ Len(SelectedDesc.channel) = 2
    /\ OmitsLabels(SelectedDesc)
    /\ returned[1].ch_names = <<"EEG 0", "EEG 1">>

\* Exactly one stream of the requested data type, chosen by type, and no
\* stream selected as a marker stream.
SingleStreamNoMarkers ==
    /\ ~Given(name_stream_eeg)
    /\ Cardinality(Typed(data_type)) = 1
    /\ IF Given(name_stream_markers)
       THEN Named(name_stream_markers[1]) = {}
       ELSE Typed(data_type_markers) = {}

\* The call has ended, by return or by an exception.
Ended == pc \in {"done", "raised"}

\* C7: for a file with exactly one stream of the requested data type and no
\* marker stream the call returns a recording with as many channels as the
\* stream declares, as many samples as its time series is long, and no
\* annotation.
C7_SingleStreamOutput ==
    (Ended /\ SingleStreamNoMarkers) =>
        /\ pc = "done"
        /\ returned # <<>>
        /\ Len(returned[1].ch_names) = DeclaredCount
        /\ Len(returned[1].data) = DeclaredCount
        /\ \A c \in 1..Len(returned[1].data) :
               Len(returned[1].data[c])
                   = Len(streams[eeg_stream].time_series)
        /\ returned[1].annotations = <<>>

\* C8: the channel label list of the selected data stream is as long as the
\* declared channel count, whatever the descriptor looks like.
C8_LabelCount ==
    InfoLoaded => Len(labels) = DeclaredCount

\* The events of the processed marker streams and their annotations.
Processed ==
    UNION {{<<k, e>> : e \in 1..Len(streams[markers_streams[k]].time_series)} :
           k \in 1..done_markers}
EventValue(ke) == streams[markers_streams[ke[1]]].time_series[ke[2]]
EventAnnotation(ke) == raw[1].annotations[EventsBefore(ke[1]) + ke[2]]

\* C9 as stated, for scalar and list event values: a one-element list is
\* replaced by its element, every other value is used unchanged.
C9_UnwrapSingletonOnly ==
    Annotating =>
        \A ke \in Processed :
            Kind(EventValue(ke)) \in {"str", "list"} =>
            EventAnnotation(ke).description =
                IF Kind(EventValue(ke)) = "list"
                   /\ Len(Elems(EventValue(ke))) = 1
                THEN <<"str", Elems(EventValue(ke))[1]>>
                ELSE EventValue(ke)

\* C9 amended: a list event value is replaced by its first element whatever
\* its length, a value that is not a list (a scalar, or a sequence of another
\* type even with one element) is used unchanged, and an empty list is never
\* turned into an annotation.
C9_UnwrapLists ==
    Annotating =>
        \A ke \in Processed :
            /\ Kind(EventValue(ke)) = "list" =>
                   /\ Elems(EventValue(ke)) # <<>>
                   /\ EventAnnotation(ke).description
                          = <<"str", Elems(EventValue(ke))[1]>>
            /\ Kind(EventValue(ke)) # "list" =>
                   EventAnnotation(ke).description = EventValue(ke)

C9_Witness ==
    /\ pc = "done"
    /\ \E ke \in Processed : Len(EventValue(ke)) = 3 /\ Kind(EventValue(ke)) = "list"
    /\ \E ke \in Processed : Kind(EventValue(ke)) = "array"

\* C10: an empty-string name argument selects as if no name were given: the
\* data stream is the first stream of the requested data type, the marker
\* streams are all the streams of the requested marker type.
C10_EmptyNameIsNoName ==
    /\ (EEGSearched /\ name_stream_eeg = Some("")) =>
           IF Typed(data_type) = {} THEN eeg_stream = 0
           ELSE eeg_stream = Least(Typed(data_type))
    /\ (MarkersSearched /\ name_stream_markers = Some("")) =>
           /\ {markers_streams[k] : k \in 1..Len(markers_streams)}
                  = Typed(data_type_markers)
           /\ Len(markers_streams) = Cardinality(Typed(data_type_markers))

C10_Witness ==
    /\ pc = "done"
    /\ name_stream_eeg = Some("")
    /\ name_stream_markers = Some("")
    /\ \E j \in Named("") : j < eeg_stream
    /\ Named("") \cap Typed(data_type_markers) # {}
    /\ Len(markers_streams) = 2

====
